---- MODULE Spec2Model ----
(***************************************************************************)
(* The chat-session service of svalet/SCALE: the Lambda request router     *)
(* (lambda.py: handler) and the three session operations of main.py        *)
(* (initialize_chat, add_message_and_get_response, get_chat_history) over  *)
(* a DynamoDB table and the OpenAI completion API.                         *)
(*                                                                         *)
(* Several Lambda invocations run at once.  Each invocation is a process   *)
(* whose steps are cut at its interactions with the world outside it: the  *)
(* get_item, the scan, the completion call, the put_item / update_item.    *)
(* The code before the first interaction (the router) belongs to the first *)
(* step; the code between two interactions belongs to the step before it.  *)
(***************************************************************************)
EXTENDS Integers, Sequences, FiniteSets, TLC

(***************************************************************************)
(* Bounds of the model.                                                    *)
(***************************************************************************)
\* datetime.now() yields 1, 2, ... up to MaxClock, and MaxClock from then on.
MaxClock == 2
\* The value the model gives to MAX_MESSAGES_PER_CHAT (the source ships 100
\* and asks to "set these limits as low as fits your experiment").
MaxMsgQuota == 1
\* The value the model gives to MAX_CHATS_PER_USER (the source ships 20).
MaxChatQuota == 1
\* The requests the router takes in one behaviour.
MaxRequests == 2

\* The Lambda execution environments: each runs one invocation at a time.
Procs == {1, 2}

(***************************************************************************)
(* Python values.                                                          *)
(***************************************************************************)
\* Python's None, and a key that a dict does not hold.
None_ == "<None>"
Missing == "<missing>"

\* bool(v) for the strings and None the code tests with `if v:` / `a and b`.
Truthy(v) == v # None_ /\ v # ""

\* dict.get(key): None when the key is missing.
DictGet(v) == IF v = Missing THEN None_ ELSE v

(***************************************************************************)
(* Configuration: main.py and user_config.py.                              *)
(***************************************************************************)
MAX_MESSAGES_PER_CHAT == MaxMsgQuota
MAX_CHATS_PER_USER == MaxChatQuota
ALLOWED_USER_IDS == {}

Localhost == "http://localhost:8000"
ProdOrigin == "https://prod.example"
\* _allowed: localhost plus the configured production origin.
AllowedOrigins == {Localhost, ProdOrigin}

(***************************************************************************)
(* Inputs.                                                                 *)
(***************************************************************************)
ChatIds == {"s1", "s2"}
UserIds == {"", "u1", "u2"}

\* An origin is a known base followed by a rest; startswith(allowed) holds
\* exactly when the base is that allowed origin.
Origins ==
    { [base |-> Localhost, rest |-> ""],
      [base |-> ProdOrigin, rest |-> ""],
      [base |-> Localhost, rest |-> ".evil.example"],
      [base |-> "https://other.example", rest |-> ""] }

BadJson == [malformed |-> TRUE]

\* The optional seeds of an initialize request.
Seeds ==
    { [system_message |-> Missing, initial_assistant_message |-> Missing,
       initial_user_message |-> Missing],
      [system_message |-> "S", initial_assistant_message |-> Missing,
       initial_user_message |-> ""],
      [system_message |-> "S", initial_assistant_message |-> "A",
       initial_user_message |-> "U"] }

NoSeeds ==
    [system_message |-> Missing, initial_assistant_message |-> Missing,
     initial_user_message |-> Missing]

Payload(user_id, chat_id, seeds, message) ==
    [user_id |-> user_id, chat_id |-> chat_id,
     system_message |-> seeds.system_message,
     initial_assistant_message |-> seeds.initial_assistant_message,
     initial_user_message |-> seeds.initial_user_message,
     message |-> message]

Payloads(route) ==
    { Payload(u, c, sd, m) :
        u \in UserIds, c \in ChatIds,
        sd \in (IF route = "initialize" THEN Seeds ELSE {NoSeeds}),
        m \in (IF route = "chat" THEN {"M"} ELSE {Missing}) }

Routes == {"initialize", "chat", "history", "export"}

Bodies == UNION { [route : {r}, payload : Payloads(r)] : r \in Routes }

\* The requests the model sends: every POST body from the local origin, and
\* one request per origin and method to exercise the checks the router makes
\* before it reads the payload (ALLOWED_USER_IDS is empty, so an allowed
\* origin makes no difference after them).
Events ==
    [origin : {[base |-> Localhost, rest |-> ""]},
     httpMethod : {"POST"}, body : Bodies \cup {BadJson}]
    \cup [origin : Origins, httpMethod : {"POST", "OPTIONS"},
          body : {[route |-> "history",
                   payload |-> Payload("u1", "s1", NoSeeds, Missing)]}]
    \cup [origin : {[base |-> ProdOrigin, rest |-> ""]}, httpMethod : {"POST"},
          body : {[route |-> "chat", payload |-> Payload("u1", "s1", NoSeeds, Missing)],
                  [route |-> "chat", payload |-> Payload(Missing, "s1", NoSeeds, "M")],
                  [route |-> "history", payload |-> Payload("u1", Missing, NoSeeds, Missing)],
                  [route |-> "initialize",
                   payload |-> Payload(Missing, Missing, NoSeeds, Missing)],
                  [route |-> "export",
                   payload |-> Payload("u1", Missing, NoSeeds, Missing)]}]

\* No request.
NoEvent == [origin |-> [base |-> "", rest |-> ""], httpMethod |-> "none", body |-> BadJson]

\* What the completion API does with one request: raise, or answer with a
\* content that may be empty or None.
GatewayOutcomes ==
    { [raises |-> TRUE, content |-> None_],
      [raises |-> FALSE, content |-> "R"],
      [raises |-> FALSE, content |-> None_] }

(***************************************************************************)
(* The table and the results.                                              *)
(***************************************************************************)
\* get_item's response without 'Item'.
NoItem == [absent |-> TRUE]
\* A timestamp attribute an item does not hold.
NoTime == -1

Message(role, content, ts) == [role |-> role, content |-> content, timestamp |-> ts]

ErrMismatch == "User ID mismatch"
ErrNotFound == "Chat session not found"
ErrChatQuota == "Maximum number of chats reached for this user."
ErrMsgQuota == "Message limit reached for this chat."
ErrGateway == "Error calling OpenAI API"
ErrRoute == "Invalid route specified"
ErrMissing == "Missing"
ErrOrigin == "Origin not allowed"
ErrUser == "User not allowed"
ErrMessage == "message is required"
ErrJson == "JSONDecodeError"
ErrStore == "ClientError"

\* A result dict; `error` is Missing when the dict has no 'error' key, and
\* so are 'chat_id' and 'user_id'.
Result(kind, error, is_new, msgs, message, item) ==
    [kind |-> kind, error |-> error, is_new |-> is_new, messages |-> msgs,
     message |-> message, item |-> item, chat_id |-> Missing, user_id |-> Missing]

\* The result dict with its 'chat_id' and 'user_id' keys.
WithIds(result, chat_id, user_id) ==
    [result EXCEPT !.chat_id = chat_id, !.user_id = user_id]

ErrorDict(e) == Result("error", e, FALSE, <<>>, Missing, NoItem)

NoResponse ==
    [statusCode |-> 0, body |-> Result("none", Missing, FALSE, <<>>, Missing, NoItem)]

NoArgs ==
    [route |-> "none", chat_id |-> Missing, user_id |-> Missing,
     system_message |-> None_, initial_assistant_message |-> None_,
     initial_user_message |-> None_, message |-> None_]

\* The calls one operation has made: how many get_item, scan and
\* put_item / update_item calls, and the completion requests with what the
\* API did with each: raise, or answer with a content.
NoCalls == [get |-> 0, scan |-> 0, write |-> 0, sent |-> <<>>]
Sent(msgs, outcome) ==
    [messages |-> msgs, raises |-> outcome.raises, content |-> outcome.content]

\* What one step hands back to API Gateway: nothing, or the response of the
\* invocation that ended with this step, with the arguments of the session
\* operation it ran and the calls that operation made, or, when it ran none,
\* with the request it answered.
NoOut ==
    [proc |-> 0, args |-> NoArgs, calls |-> NoCalls, response |-> NoResponse,
     event |-> NoEvent]
Out(p, a, used, resp) ==
    [proc |-> p, args |-> a, calls |-> used, response |-> resp, event |-> NoEvent]

VARIABLES
    store,      \* the DynamoDB table: chat_id -> item, or NoItem
    clock,      \* the last value datetime.now() returned
    pc,         \* where each invocation stands
    args,       \* the arguments of the operation the router dispatched to
    messages,   \* the operation's local `messages` list
    timestamp,  \* initialize_chat's local `timestamp`
    out,        \* the response returned by the step just taken, if any
    calls,      \* per invocation: the calls its operation has made so far
    puts,       \* per chat_id: how many put_item calls wrote it
    updates,    \* per chat_id: how many update_item calls wrote it
    requests    \* how many requests the router has taken

vars ==
    <<store, clock, pc, args, messages, timestamp, calls, puts, updates, requests, out>>

\* The table outlives the invocations.  It starts empty, or holding the chat
\* that initialize_chat("s1", "u1", system_message="S") left in it at the
\* clock's first reading.
EmptyTable == [c \in ChatIds |-> NoItem]

SeededTable ==
    [EmptyTable EXCEPT !["s1"] =
        [user_id |-> "u1", messages |-> <<Message("system", "S", 1)>>,
         created_at |-> 1, updated_at |-> 1]]

Init ==
    /\ \/ store = EmptyTable /\ clock = 0
       \/ store = SeededTable /\ clock = 1
    /\ puts = [c \in ChatIds |-> IF store[c] = NoItem THEN 0 ELSE 1]
    /\ updates = [c \in ChatIds |-> 0]
    /\ pc = [p \in Procs |-> "idle"]
    /\ args = [p \in Procs |-> NoArgs]
    /\ messages = [p \in Procs |-> <<>>]
    /\ timestamp = [p \in Procs |-> 0]
    /\ calls = [p \in Procs |-> NoCalls]
    /\ requests = 0
    /\ out = NoOut

(***************************************************************************)
(* Pure helpers of main.py.                                                *)
(***************************************************************************)
\* datetime.now().isoformat(): each reading is later than the one before,
\* up to the horizon MaxClock.
Now(clk) == IF clk < MaxClock THEN clk + 1 ELSE clk

\* Mutant: the filter on the role is left out.
VisibleMessages_Unfiltered(msgs) == msgs

\* [msg for msg in all_messages if msg.get('role') != 'system']
VisibleMessages(msgs) == SelectSeq(msgs, LAMBDA m : m.role # "system")

\* Mutant: the system messages are filtered out of the completion request,
\* as they are out of the returned messages.
OpenAIMessages_NoSystem(msgs) ==
    LET shown == SelectSeq(msgs, LAMBDA m : m.role # "system") IN
    [i \in 1..Len(shown) |-> [role |-> shown[i].role, content |-> shown[i].content]]

\* [{'role': msg['role'], 'content': msg['content']} for msg in messages]
OpenAIMessages(msgs) ==
    [i \in 1..Len(msgs) |-> [role |-> msgs[i].role, content |-> msgs[i].content]]

\* sum(1 for msg in messages if msg.get('role') == 'user')
UserMessageCount(msgs) == Cardinality({i \in 1..Len(msgs) : msgs[i].role = "user"})

\* Mutant: the comparison is inverted.
UserIdMismatch_Inverted(stored_user_id, user_id) ==
    Truthy(stored_user_id) /\ stored_user_id = user_id

\* stored_user_id and stored_user_id != user_id
UserIdMismatch(stored_user_id, user_id) ==
    Truthy(stored_user_id) /\ stored_user_id # user_id

\* Mutant: > for >=.
MessageLimitReached_OffByOne(msgs) ==
    MAX_MESSAGES_PER_CHAT # 0 /\ UserMessageCount(msgs) > MAX_MESSAGES_PER_CHAT

\* MAX_MESSAGES_PER_CHAT and user_message_count >= MAX_MESSAGES_PER_CHAT
MessageLimitReached(msgs) ==
    MAX_MESSAGES_PER_CHAT # 0 /\ UserMessageCount(msgs) >= MAX_MESSAGES_PER_CHAT

\* table.scan(FilterExpression='user_id = :uid'): the chat_ids of the user's items.
ScanUser(tbl, user_id) ==
    {c \in ChatIds : tbl[c] # NoItem /\ tbl[c].user_id = user_id}

\* MAX_CHATS_PER_USER and user_chat_count >= MAX_CHATS_PER_USER
ChatLimitReached(tbl, user_id) ==
    MAX_CHATS_PER_USER # 0 /\ Cardinality(ScanUser(tbl, user_id)) >= MAX_CHATS_PER_USER

\* The initial messages list of a new chat, lines 141-169.
InitialMessages(a, ts) ==
    (IF Truthy(a.system_message)
        THEN <<Message("system", a.system_message, ts)>> ELSE <<>>)
    \o (IF Truthy(a.initial_assistant_message)
        THEN <<Message("assistant", a.initial_assistant_message, ts)>> ELSE <<>>)
    \o (IF Truthy(a.initial_user_message)
        THEN <<Message("user", a.initial_user_message, ts)>> ELSE <<>>)

\* Mutant: the except clause returns (None, None).
call_openai_api_Swallowing(outcome) ==
    [assistant_message |-> IF outcome.raises THEN None_ ELSE outcome.content,
     error |-> None_]

\* call_openai_api: (assistant_message, None) or (None, error_msg).
call_openai_api(outcome) ==
    IF outcome.raises
    THEN [assistant_message |-> None_, error |-> ErrGateway]
    ELSE [assistant_message |-> outcome.content, error |-> None_]

\* table.put_item(Item=chat_item): the whole item is replaced.
PutItem(tbl, chat_id, user_id, msgs, ts) ==
    [tbl EXCEPT ![chat_id] =
        [user_id |-> user_id, messages |-> msgs, created_at |-> ts, updated_at |-> ts]]

\* Mutant: only the new turn is written, not the list it was appended to.
UpdateItem_OnlyNewTurn(tbl, chat_id, msgs, ts) ==
    [tbl EXCEPT ![chat_id] =
        [@ EXCEPT !.messages = SubSeq(msgs, Len(msgs) - 1, Len(msgs)),
                  !.updated_at = ts]]

\* Mutant: the update expression also SETs created_at.
UpdateItem_Restamping(tbl, chat_id, msgs, ts) ==
    [tbl EXCEPT ![chat_id] =
        [@ EXCEPT !.messages = msgs, !.updated_at = ts, !.created_at = ts]]

\* Mutant: the new turn is appended to the list the table holds at the time
\* of the write (list_append), not to the list the call read.
UpdateItem_Merging(tbl, chat_id, msgs, ts) ==
    [tbl EXCEPT ![chat_id] =
        [@ EXCEPT !.messages = @ \o SubSeq(msgs, Len(msgs) - 1, Len(msgs)),
                  !.updated_at = ts]]

\* table.update_item(SET messages, updated_at): the other attributes stay;
\* an item that is not there is created with these two attributes alone.
UpdateItem(tbl, chat_id, msgs, ts) ==
    [tbl EXCEPT ![chat_id] =
        IF tbl[chat_id] = NoItem
        THEN [user_id |-> None_, messages |-> msgs, created_at |-> NoTime,
              updated_at |-> ts]
        ELSE [tbl[chat_id] EXCEPT !.messages = msgs, !.updated_at = ts]]

(***************************************************************************)
(* lambda.py: the router.                                                  *)
(***************************************************************************)
\* any(origin.startswith(allowed) for allowed in _allowed)
_is_allowed_origin(origin) == origin.base \in AllowedOrigins

\* Mutant: every result is sent with status 200.
Respond_AlwaysOK(result) == [statusCode |-> 200, body |-> result]

\* 'statusCode': 200 if 'error' not in result else 400
Respond(result) ==
    [statusCode |-> IF result.error = Missing THEN 200 ELSE 400, body |-> result]

Reply(code, result) ==
    [call |-> "none", args |-> NoArgs, response |-> [statusCode |-> code, body |-> result]]

Call(route, a) == [call |-> route, args |-> a, response |-> NoResponse]

\* Mutant: only chat_id is required.
MissingKeys_ChatOnly(payload) == {k \in {"chat_id"} : payload[k] = Missing}

\* [k for k in ('user_id', 'chat_id') if k not in payload]
MissingKeys(payload) == {k \in {"user_id", "chat_id"} : payload[k] = Missing}

\* handler, up to the call of a session operation: the operation it calls
\* and with what, or the response it returns without calling one.
Dispatch(event) ==
    IF ~_is_allowed_origin(event.origin)
    THEN Reply(403, ErrorDict(ErrOrigin))
    ELSE IF event.httpMethod = "OPTIONS"
    THEN Reply(200, Result("preflight", Missing, FALSE, <<>>, Missing, NoItem))
    ELSE IF event.body = BadJson
    THEN Reply(500, ErrorDict(ErrJson))
    ELSE LET route == event.body.route
             payload == event.body.payload
         IN
         IF MissingKeys(payload) # {}
         THEN Reply(400, ErrorDict(ErrMissing))
         ELSE IF /\ event.origin # [base |-> Localhost, rest |-> ""]
                 /\ ALLOWED_USER_IDS # {}
                 /\ payload.user_id \notin ALLOWED_USER_IDS
         THEN Reply(403, ErrorDict(ErrUser))
         ELSE IF route = "initialize"
         THEN Call("initialize",
                   [route |-> route, chat_id |-> payload.chat_id,
                    user_id |-> payload.user_id,
                    system_message |-> DictGet(payload.system_message),
                    initial_assistant_message |->
                        DictGet(payload.initial_assistant_message),
                    initial_user_message |-> DictGet(payload.initial_user_message),
                    message |-> None_])
         ELSE IF route = "chat"
         THEN IF payload.message = Missing
              THEN Reply(500, ErrorDict(ErrMessage))
              ELSE Call("chat",
                        [NoArgs EXCEPT !.route = route, !.chat_id = payload.chat_id,
                                       !.user_id = payload.user_id,
                                       !.message = payload.message])
         ELSE IF route = "history"
         THEN Call("history",
                   [NoArgs EXCEPT !.route = route, !.chat_id = payload.chat_id,
                                  !.user_id = payload.user_id])
         ELSE Reply(Respond(ErrorDict(ErrRoute)).statusCode, ErrorDict(ErrRoute))

\* Lambda hands an event to an environment that is free, and uses a
\* further one only while the ones before it are busy.
Free(p) ==
    /\ pc[p] = "idle"
    /\ \A q \in Procs : q < p => pc[q] # "idle"
    /\ requests < MaxRequests

\* The invocation ends: the router wraps the operation's `result`
\* (lines 121-125), the operation having made the calls `used`.
Return(p, a, result, used) ==
    /\ pc' = [pc EXCEPT ![p] = "idle"]
    /\ out' = Out(p, a, used, Respond(result))
    /\ args' = [args EXCEPT ![p] = NoArgs]
    /\ messages' = [messages EXCEPT ![p] = <<>>]
    /\ timestamp' = [timestamp EXCEPT ![p] = 0]
    /\ calls' = [calls EXCEPT ![p] = NoCalls]

\* The operation goes on to `step` with its local `messages` list as `msgs`.
Goto(p, a, step, msgs, used) ==
    /\ pc' = [pc EXCEPT ![p] = step]
    /\ args' = [args EXCEPT ![p] = a]
    /\ messages' = [messages EXCEPT ![p] = msgs]
    /\ calls' = [calls EXCEPT ![p] = used]
    /\ out' = NoOut

\* handler answers the event without calling a session operation.
HandlerReply(p) ==
    /\ Free(p)
    /\ \E event \in Events :
        LET d == Dispatch(event) IN
        /\ d.call = "none"
        /\ out' = [Out(p, NoArgs, NoCalls, d.response) EXCEPT !.event = event]
    /\ requests' = requests + 1
    /\ UNCHANGED <<store, clock, pc, args, messages, timestamp, calls, puts, updates>>

(***************************************************************************)
(* main.py: initialize_chat.                                               *)
(***************************************************************************)
\* The dict initialize_chat returns for a chat, new or not.
ChatView(is_new, msgs) ==
    Result("chat_view", Missing, is_new, VisibleMessages(msgs), Missing, NoItem)

\* handler, route 'initialize', and lines 105-125 of initialize_chat:
\* get_item; an existing chat is answered from the item.
InitGet(p) ==
    /\ Free(p)
    /\ \E event \in Events :
        LET d == Dispatch(event)
            a == d.args
            item == store[a.chat_id]
            used == [NoCalls EXCEPT !.get = @ + 1]
        IN
        /\ d.call = "initialize"
        /\ IF item # NoItem
           THEN IF UserIdMismatch(item.user_id, a.user_id)
                THEN Return(p, a, ErrorDict(ErrMismatch), used)
                ELSE Return(p, a,
                            WithIds(ChatView(FALSE, item.messages), a.chat_id,
                                    IF Truthy(item.user_id)
                                    THEN item.user_id ELSE a.user_id),
                            used)
           ELSE Goto(p, a, "init_scan", <<>>, used) /\ UNCHANGED timestamp
    /\ requests' = requests + 1
    /\ UNCHANGED <<store, clock, puts, updates>>

\* Lines 128-169: the scan that counts the user's chats, then the initial
\* messages, stamped with one reading of the clock.
InitScan(p) ==
    /\ pc[p] = "init_scan"
    /\ LET a == args[p]
           used == [calls[p] EXCEPT !.scan = @ + 1]
       IN
       IF ChatLimitReached(store, a.user_id)
       THEN Return(p, a, ErrorDict(ErrChatQuota), used) /\ UNCHANGED clock
       ELSE LET now == Now(clock) IN
            /\ clock' = now
            /\ timestamp' = [timestamp EXCEPT ![p] = now]
            /\ Goto(p, a, IF Truthy(a.initial_user_message)
                          THEN "init_openai" ELSE "init_put",
                    InitialMessages(a, now), used)
    /\ UNCHANGED <<store, puts, updates, requests>>

\* Mutant: the item is put before the completion call, so a failed call
\* returns its error with the half-built chat already stored.
InitOpenAI_PutFirst(p) ==
    /\ pc[p] = "init_openai"
    /\ \E outcome \in GatewayOutcomes :
        LET a == args[p]
            r == call_openai_api(outcome)
            used == [calls[p] EXCEPT !.sent =
                        Append(@, Sent(OpenAIMessages(messages[p]), outcome))]
        IN
        IF Truthy(r.error)
        THEN /\ store' = PutItem(store, a.chat_id, a.user_id, messages[p], timestamp[p])
             /\ Return(p, a, ErrorDict(r.error), used)
             /\ UNCHANGED clock
        ELSE /\ Goto(p, a, "init_put",
                     IF Truthy(r.assistant_message)
                     THEN Append(messages[p],
                                 Message("assistant", r.assistant_message, Now(clock)))
                     ELSE messages[p],
                     used)
             /\ clock' = IF Truthy(r.assistant_message) THEN Now(clock) ELSE clock
             /\ UNCHANGED <<timestamp, store>>
    /\ UNCHANGED <<puts, updates, requests>>

\* Lines 172-186: the completion call for the initial user message; a reply
\* is appended only `if assistant_response`.
InitOpenAI(p) ==
    /\ pc[p] = "init_openai"
    /\ \E outcome \in GatewayOutcomes :
        LET a == args[p]
            r == call_openai_api(outcome)
            used == [calls[p] EXCEPT !.sent =
                        Append(@, Sent(OpenAIMessages(messages[p]), outcome))]
        IN
        IF Truthy(r.error)
        THEN Return(p, a, ErrorDict(r.error), used) /\ UNCHANGED clock
        ELSE IF Truthy(r.assistant_message)
        THEN LET now == Now(clock) IN
             /\ clock' = now
             /\ Goto(p, a, "init_put",
                     Append(messages[p], Message("assistant", r.assistant_message, now)),
                     used)
             /\ UNCHANGED timestamp
        ELSE Goto(p, a, "init_put", messages[p], used) /\ UNCHANGED <<timestamp, clock>>
    /\ UNCHANGED <<store, puts, updates, requests>>

\* Lines 188-210: put_item of the whole chat item, then the new chat's view.
InitPut(p) ==
    /\ pc[p] = "init_put"
    /\ store' = PutItem(store, args[p].chat_id, args[p].user_id, messages[p],
                        timestamp[p])
    /\ puts' = [puts EXCEPT ![args[p].chat_id] = @ + 1]
    /\ Return(p, args[p],
              WithIds(ChatView(TRUE, messages[p]), args[p].chat_id, args[p].user_id),
              [calls[p] EXCEPT !.write = @ + 1])
    /\ UNCHANGED <<clock, updates, requests>>

(***************************************************************************)
(* main.py: add_message_and_get_response.                                  *)
(***************************************************************************)
\* handler, route 'chat', and lines 237-266 of add_message_and_get_response:
\* get_item, the three checks, the user's message appended to the local list.
ChatGet(p) ==
    /\ Free(p)
    /\ \E event \in Events :
        LET d == Dispatch(event)
            a == d.args
            item == store[a.chat_id]
            used == [NoCalls EXCEPT !.get = @ + 1]
        IN
        /\ d.call = "chat"
        /\ IF item = NoItem
           THEN Return(p, a, ErrorDict(ErrNotFound), used) /\ UNCHANGED clock
           ELSE IF UserIdMismatch(item.user_id, a.user_id)
           THEN Return(p, a, ErrorDict(ErrMismatch), used) /\ UNCHANGED clock
           ELSE IF MessageLimitReached(item.messages)
           THEN Return(p, a, ErrorDict(ErrMsgQuota), used) /\ UNCHANGED clock
           ELSE LET now == Now(clock) IN
                /\ clock' = now
                /\ Goto(p, a, "chat_openai",
                        Append(item.messages, Message("user", a.message, now)),
                        used)
                /\ UNCHANGED timestamp
    /\ requests' = requests + 1
    /\ UNCHANGED <<store, puts, updates>>

\* Mutant: a failed completion call is tried once more.
ChatOpenAI_Retrying(p) ==
    /\ pc[p] = "chat_openai"
    /\ \E outcome \in GatewayOutcomes :
        LET a == args[p]
            r == call_openai_api(outcome)
            used == [calls[p] EXCEPT !.sent =
                        Append(@, Sent(OpenAIMessages(messages[p]), outcome))]
        IN
        IF Truthy(r.error) /\ calls[p].sent = <<>>
        THEN Goto(p, a, "chat_openai", messages[p], used) /\ UNCHANGED <<timestamp, clock>>
        ELSE IF Truthy(r.error)
        THEN Return(p, a, ErrorDict(r.error), used) /\ UNCHANGED clock
        ELSE LET now == Now(clock) IN
             /\ clock' = now
             /\ Goto(p, a, "chat_update",
                     Append(messages[p], Message("assistant", r.assistant_message, now)),
                     used)
             /\ UNCHANGED timestamp
    /\ UNCHANGED <<store, puts, updates, requests>>

\* Lines 269-280: the completion call; its reply, whatever it is, is
\* appended as the assistant's entry.
ChatOpenAI(p) ==
    /\ pc[p] = "chat_openai"
    /\ \E outcome \in GatewayOutcomes :
        LET a == args[p]
            r == call_openai_api(outcome)
            used == [calls[p] EXCEPT !.sent =
                        Append(@, Sent(OpenAIMessages(messages[p]), outcome))]
        IN
        IF Truthy(r.error)
        THEN Return(p, a, ErrorDict(r.error), used) /\ UNCHANGED clock
        ELSE LET now == Now(clock) IN
             /\ clock' = now
             /\ Goto(p, a, "chat_update",
                     Append(messages[p], Message("assistant", r.assistant_message, now)),
                     used)
             /\ UNCHANGED timestamp
    /\ UNCHANGED <<store, puts, updates, requests>>

\* Lines 283-294: update_item of messages and updated_at, then the reply.
ChatUpdate(p) ==
    /\ pc[p] = "chat_update"
    /\ LET now == Now(clock) IN
        /\ clock' = now
        /\ store' = UpdateItem(store, args[p].chat_id, messages[p], now)
    /\ Return(p, args[p],
              WithIds(Result("reply", Missing, FALSE, <<>>,
                             messages[p][Len(messages[p])].content, NoItem),
                      args[p].chat_id, args[p].user_id),
              [calls[p] EXCEPT !.write = @ + 1])
    /\ updates' = [updates EXCEPT ![args[p].chat_id] = @ + 1]
    /\ UNCHANGED <<puts, requests>>

(***************************************************************************)
(* main.py: get_chat_history.                                              *)
(***************************************************************************)
\* Mutant: a chat that is not there is answered as a chat without messages.
HistGet_EmptyForMissing(p) ==
    /\ Free(p)
    /\ \E event \in Events :
        LET d == Dispatch(event)
            a == d.args
            item == store[a.chat_id]
            used == [NoCalls EXCEPT !.get = @ + 1]
        IN
        /\ d.call = "history"
        /\ IF item = NoItem
           THEN Return(p, a, Result("item", Missing, FALSE, <<>>, Missing, NoItem), used)
           ELSE IF UserIdMismatch(item.user_id, a.user_id)
           THEN Return(p, a, ErrorDict(ErrMismatch), used)
           ELSE Return(p, a,
                       WithIds(Result("item", Missing, FALSE, item.messages, Missing,
                                      item),
                               a.chat_id,
                               IF item.user_id = None_ THEN Missing ELSE item.user_id),
                       used)
    /\ requests' = requests + 1
    /\ UNCHANGED <<store, clock, puts, updates>>

\* handler, route 'history', and get_chat_history: get_item and the two
\* checks; the item itself is returned.
HistGet(p) ==
    /\ Free(p)
    /\ \E event \in Events :
        LET d == Dispatch(event)
            a == d.args
            item == store[a.chat_id]
            used == [NoCalls EXCEPT !.get = @ + 1]
        IN
        /\ d.call = "history"
        /\ IF item = NoItem
           THEN Return(p, a, ErrorDict(ErrNotFound), used)
           ELSE IF UserIdMismatch(item.user_id, a.user_id)
           THEN Return(p, a, ErrorDict(ErrMismatch), used)
           ELSE Return(p, a,
                       WithIds(Result("item", Missing, FALSE, item.messages, Missing,
                                      item),
                               a.chat_id,
                               IF item.user_id = None_ THEN Missing ELSE item.user_id),
                       used)
    /\ requests' = requests + 1
    /\ UNCHANGED <<store, clock, puts, updates>>

(***************************************************************************)
(* Specifications.                                                         *)
(***************************************************************************)
Next ==
    \E p \in Procs :
        \/ HandlerReply(p)
        \/ InitGet(p)
        \/ InitScan(p)
        \/ InitOpenAI(p)
        \/ InitPut(p)
        \/ ChatGet(p)
        \/ ChatOpenAI(p)
        \/ ChatUpdate(p)
        \/ HistGet(p)

\* Any number of invocations at once, in any interleaving.
Spec == Init /\ [][Next]_vars

\* The chat_id of the operation that the step of `p` just entered.
EnteredChat(p) == IF pc'[p] # "idle" THEN args'[p].chat_id ELSE out'.args.chat_id

\* No other invocation is inside an operation on the chat `p` enters.
Alone(p) ==
    \A q \in Procs \ {p} : pc[q] = "idle" \/ args[q].chat_id # EnteredChat(p)

SeqNext ==
    \E p \in Procs :
        \/ HandlerReply(p)
        \/ InitGet(p) /\ Alone(p)
        \/ InitScan(p)
        \/ InitOpenAI(p)
        \/ InitPut(p)
        \/ ChatGet(p) /\ Alone(p)
        \/ ChatOpenAI(p)
        \/ ChatUpdate(p)
        \/ HistGet(p) /\ Alone(p)

\* The operations on one chat do not overlap: each ends before the next one
\* on that chat starts.  Operations on different chats still interleave.
SeqSpec == Init /\ [][SeqNext]_vars

(***************************************************************************)
(* The table's calls failing.                                              *)
(*                                                                         *)
(* boto3 raises (ClientError, a timeout) when a call to the table fails.   *)
(* main.py has no try around its table calls, so the exception leaves the  *)
(* operation and reaches the except clause of handler, lines 127-133.  A   *)
(* call that fails has not changed the table.                              *)
(***************************************************************************)
\* The invocation ends in handler's except clause.
Raise(p, a, e, used) ==
    /\ pc' = [pc EXCEPT ![p] = "idle"]
    /\ out' = Out(p, a, used, [statusCode |-> 500, body |-> ErrorDict(e)])
    /\ args' = [args EXCEPT ![p] = NoArgs]
    /\ messages' = [messages EXCEPT ![p] = <<>>]
    /\ timestamp' = [timestamp EXCEPT ![p] = 0]
    /\ calls' = [calls EXCEPT ![p] = NoCalls]

\* get_item raises: lines 105, 237, 312.
GetFails(p) ==
    /\ Free(p)
    /\ \E event \in Events :
        LET d == Dispatch(event) IN
        /\ d.call # "none"
        /\ Raise(p, d.args, ErrStore, [NoCalls EXCEPT !.get = @ + 1])
    /\ requests' = requests + 1
    /\ UNCHANGED <<store, clock, puts, updates>>

\* scan raises: line 128.
ScanFails(p) ==
    /\ pc[p] = "init_scan"
    /\ Raise(p, args[p], ErrStore, [calls[p] EXCEPT !.scan = @ + 1])
    /\ UNCHANGED <<store, clock, puts, updates, requests>>

\* put_item raises: line 198.
PutFails(p) ==
    /\ pc[p] = "init_put"
    /\ Raise(p, args[p], ErrStore, [calls[p] EXCEPT !.write = @ + 1])
    /\ UNCHANGED <<store, clock, puts, updates, requests>>

\* update_item raises: line 283, after datetime.now() of line 288.
UpdateFails(p) ==
    /\ pc[p] = "chat_update"
    /\ clock' = Now(clock)
    /\ Raise(p, args[p], ErrStore, [calls[p] EXCEPT !.write = @ + 1])
    /\ UNCHANGED <<store, puts, updates, requests>>

FaultNext ==
    \/ Next
    \/ \E p \in Procs :
        \/ GetFails(p)
        \/ ScanFails(p)
        \/ PutFails(p)
        \/ UpdateFails(p)

\* As Spec, and any call to the table may fail.
FaultSpec == Init /\ [][FaultNext]_vars

(***************************************************************************)
(* Vocabulary of the properties.                                           *)
(*                                                                         *)
(* Every step sets `out`: to the response when the step ends an            *)
(* invocation, to NoOut otherwise.  So `out.proc # 0` in a state says that *)
(* the step into this state returned, and `store` is the table as that     *)
(* step left it.                                                           *)
(***************************************************************************)
\* The step of `p` enters a session operation (and may return from it).
Entering(p) ==
    /\ pc[p] = "idle"
    /\ \/ pc'[p] # "idle"
       \/ out'.proc = p /\ out'.args.route # "none"

\* The arguments of the operation the step of `p` entered.
EnteredArgs(p) == IF pc'[p] # "idle" THEN args'[p] ELSE out'.args

\* The step of `p` leaves the place `step` of its operation.
Leaving(p, step) == pc[p] = step /\ pc'[p] # step

\* The step of `p` returns to the router's caller.
Returning(p) == out'.proc = p

\* The calls of the operation of `p` after the step.
CallsAfter(p) == IF pc'[p] # "idle" THEN calls'[p] ELSE out'.calls

IsPrefix(s, t) == Len(s) <= Len(t) /\ SubSeq(t, 1, Len(s)) = s

HasRole(msgs, role) == \E i \in 1..Len(msgs) : msgs[i].role = role

\* The role and content of each message, in order, without the timestamps.
RoleContent(msgs) ==
    [i \in 1..Len(msgs) |-> [role |-> msgs[i].role, content |-> msgs[i].content]]

Succeeded(o) == o.proc # 0 /\ o.response.body.error = Missing
Failed(o, e) == o.proc # 0 /\ o.response.body.error = e

(***************************************************************************)
(* C1.  For every existing session and every supplied user_id that differs *)
(* from the stored one, initialize_chat, add_message_and_get_response and  *)
(* get_chat_history return the owner-mismatch error, return none of the    *)
(* session's messages, call the completion API not at all and leave the    *)
(* table unchanged -- for every user_id the router lets through.           *)
(* The code skips the comparison when the stored user_id is falsy, so a    *)
(* chat created with user_id "" is open to every caller.                   *)
(***************************************************************************)
C1_OwnerMismatchRejected ==
    [][\A p \in Procs :
        LET a == EnteredArgs(p) IN
        (/\ Entering(p)
         /\ store[a.chat_id] # NoItem
         /\ store[a.chat_id].user_id # a.user_id)
        => /\ Returning(p)
           /\ out'.response.body.error = ErrMismatch
           /\ out'.response.body.messages = <<>>
           /\ out'.response.body.item = NoItem
           /\ out'.calls.sent = <<>>
           /\ store' = store]_vars

(***************************************************************************)
(* C2.  In every reachable table, under any interleaving, a chat holds at  *)
(* most MAX_MESSAGES_PER_CHAT (>= 1) messages of role user; and            *)
(* add_message_and_get_response on a chat whose stored user-message count  *)
(* is at the maximum returns an error -- the message-limit error when the  *)
(* owner check passes -- without a completion call and without changing    *)
(* the table.                                                              *)
(***************************************************************************)
MessageQuotaKept(tbl) ==
    \A c \in ChatIds :
        tbl[c] # NoItem => UserMessageCount(tbl[c].messages) <= MAX_MESSAGES_PER_CHAT

C2_MessageQuota ==
    [][/\ MessageQuotaKept(store) /\ MessageQuotaKept(store')
       /\ \A p \in Procs :
            LET a == EnteredArgs(p) IN
            (/\ Entering(p)
             /\ a.route = "chat"
             /\ store[a.chat_id] # NoItem
             /\ UserMessageCount(store[a.chat_id].messages) >= MAX_MESSAGES_PER_CHAT)
            => /\ Returning(p)
               /\ out'.response.body.error \in {ErrMsgQuota, ErrMismatch}
               /\ (store[a.chat_id].user_id = a.user_id
                   => out'.response.body.error = ErrMsgQuota)
               /\ out'.calls.sent = <<>>
               /\ out'.calls.write = 0
               /\ store' = store]_vars

\* A chat at its maximum has turned a further message away.
C2_Witness ==
    /\ Failed(out, ErrMsgQuota)
    /\ out.args.route = "chat"
    /\ UserMessageCount(store[out.args.chat_id].messages) = MAX_MESSAGES_PER_CHAT

(***************************************************************************)
(* C3.  In every reachable table, under any interleaving of                *)
(* initialize_chat calls, a user_id owns at most MAX_CHATS_PER_USER chats; *)
(* and initialize_chat of a new chat_id by a user at the maximum returns   *)
(* the chat-limit error and writes nothing.                                *)
(* Two overlapping calls of one user for two new chat_ids both scan before *)
(* either puts, and both put.                                              *)
(***************************************************************************)
ChatQuotaKept(tbl) ==
    \A u \in UserIds : Cardinality(ScanUser(tbl, u)) <= MAX_CHATS_PER_USER

C3_ChatQuota ==
    [][/\ ChatQuotaKept(store) /\ ChatQuotaKept(store')
       /\ \A p \in Procs :
            (/\ Leaving(p, "init_scan")
             /\ Cardinality(ScanUser(store, args[p].user_id)) >= MAX_CHATS_PER_USER)
            => /\ Returning(p)
               /\ out'.response.body.error = ErrChatQuota
               /\ out'.calls.write = 0
               /\ store' = store]_vars

(***************************************************************************)
(* C4.  When add_message_and_get_response has passed its not-found, owner  *)
(* and limit checks and the completion call fails, the call returns the    *)
(* completion error and has written nothing: the step that read the chat   *)
(* and the step that got the failure both leave the table as it was, so    *)
(* the user's message is not persisted.                                    *)
(***************************************************************************)
C4_AppendGatewayFailure ==
    [][\A p \in Procs :
        /\ (Entering(p) /\ EnteredArgs(p).route = "chat") => store' = store
        /\ (/\ Leaving(p, "chat_openai")
            /\ CallsAfter(p).sent[Len(CallsAfter(p).sent)].raises)
           => /\ Returning(p)
              /\ out'.response.body.kind = "error"
              /\ out'.response.body.error = ErrGateway
              /\ out'.response.statusCode = 400
              /\ out'.calls.write = 0
              /\ store' = store]_vars

\* An append whose completion call failed has returned.
C4_Witness ==
    /\ Failed(out, ErrGateway)
    /\ out.args.route = "chat"
    /\ Len(out.calls.sent) = 1 /\ out.calls.sent[1].raises
    /\ store[out.args.chat_id] # NoItem
    /\ ~HasRole(store[out.args.chat_id].messages, "user")

(***************************************************************************)
(* C5.  When initialize_chat is called for a chat_id that does not exist,  *)
(* with an initial user message, and the completion call fails, the call   *)
(* returns an error and persists no item: the table is unchanged (so is    *)
(* the user's chat count) and, no other operation on that chat_id          *)
(* overlapping, get_item on it still finds nothing.                        *)
(***************************************************************************)
C5_InitGatewayFailure ==
    [][\A p \in Procs :
        (/\ Leaving(p, "init_openai")
         /\ CallsAfter(p).sent[Len(CallsAfter(p).sent)].raises)
        => /\ Truthy(args[p].initial_user_message)
           /\ Returning(p)
           /\ out'.response.body.kind = "error"
           /\ out'.response.body.error = ErrGateway
           /\ out'.calls.write = 0
           /\ store' = store
           /\ store'[args[p].chat_id] = NoItem
           /\ ScanUser(store', args[p].user_id) = ScanUser(store, args[p].user_id)]_vars

\* An initialize whose completion call failed has returned, and no item is there.
C5_Witness ==
    /\ Failed(out, ErrGateway)
    /\ out.args.route = "initialize"
    /\ Truthy(out.args.initial_user_message)
    /\ out.calls.sent[1].raises
    /\ store[out.args.chat_id] = NoItem

(***************************************************************************)
(* C6.  Once a chat exists with a user_id, its stored user_id is the same  *)
(* in every later state, under any interleaving of the three operations -- *)
(* two overlapping initialize_chat calls for one new chat_id with          *)
(* different user_ids included.                                            *)
(* Both such calls find no item, and the second put_item replaces the      *)
(* first call's item, user_id and all.                                     *)
(***************************************************************************)
C6_OwnerImmutable ==
    [][\A c \in ChatIds :
        store[c] # NoItem
        => /\ store'[c] # NoItem
           /\ store'[c].user_id = store[c].user_id]_vars

(***************************************************************************)
(* C7.  For each chat_id, over any interleaving, at most one               *)
(* initialize_chat call creates the chat: at most one put_item is issued   *)
(* for it, at most one call returns is_new = True, and every other         *)
(* successful initialize_chat returns is_new = False.                      *)
(* The put_item is unconditional, so two overlapping calls both put and    *)
(* both answer is_new = True.                                              *)
(***************************************************************************)
C7_CreatedOnce ==
    /\ \A c \in ChatIds : puts[c] <= 1
    /\ (Succeeded(out) /\ out.args.route = "initialize")
       => (out.response.body.is_new <=> out.calls.write = 1)

(***************************************************************************)
(* C8.  No message of role system is in the messages initialize_chat       *)
(* returns, for a new chat or an existing one, nor in what                 *)
(* add_message_and_get_response returns (the reply alone); while           *)
(* get_chat_history returns the stored item itself, system messages        *)
(* included, in stored order.                                              *)
(***************************************************************************)
C8_SystemMessagesHidden ==
    Succeeded(out) =>
        LET body == out.response.body
            item == store[out.args.chat_id]
        IN
        /\ out.args.route = "initialize"
           => /\ ~HasRole(body.messages, "system")
              /\ body.item = NoItem
              /\ body.messages =
                    SelectSeq(item.messages,
                              LAMBDA m : m.role \in {"user", "assistant"})
        /\ out.args.route = "chat"
           => /\ body.messages = <<>> /\ body.item = NoItem
              /\ body.message = item.messages[Len(item.messages)].content
        /\ out.args.route = "history"
           => /\ body.item = item
              /\ body.messages = item.messages

\* initialize_chat has answered for a chat whose stored messages start with
\* a system message, and answered with a message.
C8_Witness ==
    /\ Succeeded(out)
    /\ out.args.route = "initialize"
    /\ HasRole(store[out.args.chat_id].messages, "system")
    /\ out.response.body.messages # <<>>

(***************************************************************************)
(* C9.  initialize_chat on a chat_id that exists with a matching user_id   *)
(* leaves the table unchanged and makes no completion call, whatever       *)
(* system, assistant and user seeds are supplied; it returns the stored    *)
(* non-system messages with is_new = False.                                *)
(***************************************************************************)
C9_InitExistingIsRead ==
    [][\A p \in Procs :
        LET a == EnteredArgs(p) IN
        (/\ Entering(p)
         /\ a.route = "initialize"
         /\ store[a.chat_id] # NoItem
         /\ store[a.chat_id].user_id = a.user_id)
        => /\ Returning(p)
           /\ out'.response.statusCode = 200
           /\ out'.response.body.error = Missing
           /\ out'.response.body.is_new = FALSE
           /\ out'.response.body.messages =
                SelectSeq(store[a.chat_id].messages, LAMBDA m : m.role # "system")
           /\ out'.calls = [NoCalls EXCEPT !.get = 1]
           /\ store' = store]_vars

\* initialize_chat with all three seeds has answered for a chat that was there.
C9_Witness ==
    /\ Succeeded(out)
    /\ out.args.route = "initialize"
    /\ out.args.system_message = "S"
    /\ out.args.initial_assistant_message = "A"
    /\ out.args.initial_user_message = "U"
    /\ ~out.response.body.is_new
    /\ store[out.args.chat_id].user_id = out.args.user_id

(***************************************************************************)
(* C10.  When the operations on a chat do not overlap, every write to the  *)
(* chat leaves the messages stored before as a prefix of the messages      *)
(* stored after: nothing stored is removed, edited, reordered or           *)
(* deduplicated, and new messages go to the end.                           *)
(***************************************************************************)
C10_AppendOnly ==
    [][\A c \in ChatIds :
        store[c] # NoItem
        => /\ store'[c] # NoItem
           /\ IsPrefix(store[c].messages, store'[c].messages)]_vars

\* An append has been written to a chat that held messages before it.
C10_Witness ==
    /\ Succeeded(out)
    /\ out.args.route = "chat"
    /\ out.calls.write = 1
    /\ Len(store[out.args.chat_id].messages) >= 3

(***************************************************************************)
(* C11.  The last writer wins.  Every update_item of                       *)
(* add_message_and_get_response stores the list the call read, followed by *)
(* its own user message and reply, whatever the table holds by then, and   *)
(* the call returns its reply.  So there is an interleaving of two calls   *)
(* on one chat in which both read the same list, both call the completion  *)
(* API, both return a reply, and the chat finally holds the turn of one of *)
(* them only: C11_Witness is its last state.                               *)
(***************************************************************************)
C11_LastWriterWins ==
    [][\A p \in Procs :
        Leaving(p, "chat_update")
        => LET c == args[p].chat_id
               n == Len(messages[p])
           IN
           /\ store'[c].messages = messages[p]
           /\ messages[p][n - 1] = Message("user", args[p].message,
                                           messages[p][n - 1].timestamp)
           /\ messages[p][n].role = "assistant"
           /\ Returning(p)
           /\ Succeeded(out')
           /\ out'.response.body.message = messages[p][n].content
           /\ out'.calls.get = 1
           /\ Len(out'.calls.sent) = 1
           /\ ~out'.calls.sent[1].raises
           /\ out'.calls.sent[1].messages = RoleContent(SubSeq(messages[p], 1, n - 1))
           /\ updates'[c] = updates[c] + 1]_vars

\* Two calls have written their turn to a chat that was put once, the second
\* has just returned its reply, and the chat holds one of the two turns.
C11_Witness ==
    /\ Succeeded(out)
    /\ out.args.route = "chat"
    /\ out.calls.write = 1
    /\ LET c == out.args.chat_id
           msgs == store[c].messages
       IN
       /\ puts[c] = 1
       /\ updates[c] = 2
       /\ Cardinality({i \in 1..Len(msgs) :
                          /\ msgs[i].role = "user"
                          /\ msgs[i].content = out.args.message}) = 1
       /\ msgs[Len(msgs)].content = out.response.body.message

(***************************************************************************)
(* C12.  One invocation of initialize_chat, add_message_and_get_response   *)
(* or get_chat_history makes at most one completion call, at most one      *)
(* get_item and at most one put_item / update_item; only initialize_chat   *)
(* scans, and once at most; get_chat_history makes no completion call and  *)
(* no write; a call that returns an error has written nothing; and the     *)
(* router's own answers come without any call.                             *)
(***************************************************************************)
AtMostOnce(used) ==
    /\ used.get <= 1
    /\ used.scan <= 1
    /\ used.write <= 1
    /\ Len(used.sent) <= 1

C12_CallBudget ==
    /\ \A p \in Procs :
        /\ AtMostOnce(calls[p])
        /\ args[p].route # "initialize" => calls[p].scan = 0
    /\ out.proc # 0
       => /\ AtMostOnce(out.calls)
          /\ out.args.route # "initialize" => out.calls.scan = 0
          /\ out.args.route = "history"
             => out.calls.sent = <<>> /\ out.calls.write = 0
          /\ out.response.body.error # Missing => out.calls.write = 0
          /\ out.args.route = "none" => out.calls = NoCalls

\* An initialize_chat that made every call it can make has returned.
C12_Witness ==
    /\ Succeeded(out)
    /\ out.args.route = "initialize"
    /\ out.calls.get = 1
    /\ out.calls.scan = 1
    /\ out.calls.write = 1
    /\ Len(out.calls.sent) = 1

(***************************************************************************)
(* C13.  Whatever the completion API and the table do -- the completion    *)
(* call failing, get_item, scan, put_item or update_item failing -- each   *)
(* of the three operations ends by returning a result dict, a success or   *)
(* {'error': ...}, to handler: handler builds its response from a result,  *)
(* with status 200 or 400, and never lands in its except clause (status    *)
(* 500) because of an operation.                                           *)
(* Only the completion call is inside a try; an exception of the table     *)
(* leaves the operation.                                                   *)
(***************************************************************************)
C13_NoPropagation ==
    (out.proc # 0 /\ out.args.route # "none")
    => /\ out.response.statusCode \in {200, 400}
       /\ out.response = Respond(out.response.body)

(***************************************************************************)
(* C14.  A successful initialize_chat of a new chat stores, in one         *)
(* put_item with created_at = updated_at, exactly: the system message if   *)
(* supplied, the initial assistant message if supplied, the initial user   *)
(* message if supplied, and then, when an initial user message was         *)
(* supplied, one assistant message holding the completion API's reply.     *)
(* The completion API is called exactly when an initial user message was   *)
(* supplied, with the role and content of the messages up to and including *)
(* it.  (Supplied: given and not empty, as `if initial_user_message:`      *)
(* reads it.)                                                              *)
(* The reply is appended only `if assistant_response`: an empty reply      *)
(* leaves the chat stored without the assistant message (see C20).         *)
(***************************************************************************)
SeedMessages(a) ==
    (IF Truthy(a.system_message)
        THEN <<[role |-> "system", content |-> a.system_message]>> ELSE <<>>)
    \o (IF Truthy(a.initial_assistant_message)
        THEN <<[role |-> "assistant", content |-> a.initial_assistant_message]>>
        ELSE <<>>)
    \o (IF Truthy(a.initial_user_message)
        THEN <<[role |-> "user", content |-> a.initial_user_message]>> ELSE <<>>)

C14_InitSequence ==
    [][\A p \in Procs :
        Leaving(p, "init_put")
        => LET a == args[p]
               item == store'[a.chat_id]
               sent == out'.calls.sent
           IN
           /\ Returning(p)
           /\ Succeeded(out')
           /\ out'.response.body.is_new
           /\ out'.calls.write = 1
           /\ puts'[a.chat_id] = puts[a.chat_id] + 1
           /\ item.created_at = item.updated_at
           /\ Truthy(a.initial_user_message) <=> Len(sent) = 1
           /\ ~Truthy(a.initial_user_message) => sent = <<>>
           /\ sent # <<>> => ~sent[1].raises /\ sent[1].messages = SeedMessages(a)
           /\ RoleContent(item.messages) =
                SeedMessages(a)
                \o (IF Truthy(a.initial_user_message)
                    THEN <<[role |-> "assistant", content |-> sent[1].content]>>
                    ELSE <<>>)]_vars

(***************************************************************************)
(* C15.  When add_message_and_get_response(chat_id, user_id, message),     *)
(* overlapping no other operation on the chat, succeeds with the reply r   *)
(* of the completion API, the messages stored afterwards are the messages  *)
(* stored before followed by the user's message and then the assistant's   *)
(* message r; the completion API received the role and content of the      *)
(* messages stored before, system messages included, followed by the       *)
(* user's message; and the call returns r with the chat_id and user_id it  *)
(* was given.                                                              *)
(***************************************************************************)
C15_AppendResult ==
    [][\A p \in Procs :
        Leaving(p, "chat_update")
        => LET a == args[p]
               before == store[a.chat_id].messages
               after == store'[a.chat_id].messages
               sent == out'.calls.sent
               r == sent[1].content
               body == out'.response.body
           IN
           /\ Returning(p)
           /\ Len(sent) = 1 /\ ~sent[1].raises
           /\ Len(after) = Len(before) + 2
           /\ SubSeq(after, 1, Len(before)) = before
           /\ RoleContent(after) =
                RoleContent(before)
                \o <<[role |-> "user", content |-> a.message],
                     [role |-> "assistant", content |-> r]>>
           /\ sent[1].messages =
                RoleContent(before) \o <<[role |-> "user", content |-> a.message]>>
           /\ out'.response.statusCode = 200
           /\ body.error = Missing
           /\ body.message = r
           /\ body.chat_id = a.chat_id
           /\ body.user_id = a.user_id]_vars

\* An append to a chat that starts with a system message has returned the
\* reply "R", the system message having gone to the completion API.
C15_Witness ==
    /\ Succeeded(out)
    /\ out.args.route = "chat"
    /\ out.response.body.message = "R"
    /\ out.calls.sent[1].messages[1].role = "system"
    /\ store[out.args.chat_id].messages[1].role = "system"
    /\ out.response.body.chat_id = out.args.chat_id

(***************************************************************************)
(* C16.  add_message_and_get_response and get_chat_history, called with a  *)
(* chat_id the table holds no item for, return the not-found error at      *)
(* once, make no completion call and no write, and create no item: the     *)
(* table is unchanged and still holds nothing for the chat_id.             *)
(***************************************************************************)
C16_NotFound ==
    [][\A p \in Procs :
        LET a == EnteredArgs(p) IN
        (/\ Entering(p)
         /\ a.route \in {"chat", "history"}
         /\ store[a.chat_id] = NoItem)
        => /\ Returning(p)
           /\ out'.response.statusCode = 400
           /\ out'.response.body = ErrorDict(ErrNotFound)
           /\ out'.calls = [NoCalls EXCEPT !.get = 1]
           /\ store' = store
           /\ store'[a.chat_id] = NoItem
           /\ puts' = puts /\ updates' = updates]_vars

\* An append to a chat_id without an item has been turned away.
C16_Witness ==
    /\ Failed(out, ErrNotFound)
    /\ out.args.route = "chat"
    /\ out.args.message = "M"
    /\ store[out.args.chat_id] = NoItem
    /\ out.calls.sent = <<>>

(***************************************************************************)
(* C17.  For every request from an allowed origin whose payload lacks      *)
(* chat_id or user_id, whatever its route, handler returns the error       *)
(* result 'Missing: ...' with status 400 and calls none of the three       *)
(* operations: no operation is ever entered without both ids, and the      *)
(* answer comes without a call to the table or to the completion API.      *)
(* (A request here is one handler reads the body of; a CORS preflight is   *)
(* answered before that.)                                                  *)
(***************************************************************************)
LacksId(event) ==
    /\ event.httpMethod = "POST"
    /\ event.origin.rest = ""
    /\ event.origin.base \in {Localhost, ProdOrigin}
    /\ event.body # BadJson
    /\ \/ event.body.payload.chat_id = Missing
       \/ event.body.payload.user_id = Missing

C17_MissingIdsRejected ==
    [][/\ \A p \in Procs :
            Entering(p)
            => /\ EnteredArgs(p).chat_id # Missing
               /\ EnteredArgs(p).user_id # Missing
       /\ LacksId(out'.event)
          => /\ out'.response = [statusCode |-> 400, body |-> ErrorDict(ErrMissing)]
             /\ out'.args = NoArgs
             /\ out'.calls = NoCalls
             /\ pc' = pc
             /\ store' = store]_vars

\* A 'history' request without chat_id has been answered.
C17_Witness ==
    /\ out.proc # 0
    /\ LacksId(out.event)
    /\ out.event.body.route = "history"
    /\ out.event.body.payload.chat_id = Missing
    /\ out.response.statusCode = 400

(***************************************************************************)
(* C18.  For every request that passes the origin, required-field and      *)
(* allow-list checks and whose route is none of 'initialize', 'chat' and   *)
(* 'history', handler calls no operation and returns a generic "invalid    *)
(* route" result whose status is not an error status.                      *)
(* The result is {'error': 'Invalid route specified'}, and handler sends   *)
(* every result with an 'error' key with status 400.                       *)
(***************************************************************************)
UnknownRoute(event) ==
    /\ event.httpMethod = "POST"
    /\ event.origin.rest = ""
    /\ event.origin.base \in {Localhost, ProdOrigin}
    /\ event.body # BadJson
    /\ event.body.payload.chat_id # Missing
    /\ event.body.payload.user_id # Missing
    /\ event.body.route \notin {"initialize", "chat", "history"}

C18_InvalidRouteNotError ==
    (out.proc # 0 /\ UnknownRoute(out.event))
    => /\ out.args = NoArgs
       /\ out.calls = NoCalls
       /\ out.response.body.error = ErrRoute
       /\ out.response.statusCode < 400

\* As amended: the "invalid route" result is an error result, sent with
\* status 400 like every other; no operation is called and nothing changes.
C18_InvalidRoute400 ==
    [][UnknownRoute(out'.event)
       => /\ out'.proc # 0
          /\ out'.args = NoArgs
          /\ out'.calls = NoCalls
          /\ out'.response = [statusCode |-> 400, body |-> ErrorDict(ErrRoute)]
          /\ pc' = pc
          /\ store' = store]_vars

\* A request for the route 'export' has been answered.
C18_Witness ==
    /\ out.proc # 0
    /\ UnknownRoute(out.event)
    /\ out.event.body.route = "export"
    /\ out.response.body.error = ErrRoute

(***************************************************************************)
(* C19.  A successful add_message_and_get_response changes only the        *)
(* messages and updated_at of its chat: the chat's chat_id (the key it is  *)
(* stored under), user_id and created_at, and every attribute of every     *)
(* other chat, are as they were; the one step that changes the table is    *)
(* the update_item.                                                        *)
(***************************************************************************)
C19_UpdateFrame ==
    [][\A p \in Procs :
        /\ (\/ Entering(p) /\ EnteredArgs(p).route = "chat"
            \/ Leaving(p, "chat_openai"))
           => store' = store
        /\ Leaving(p, "chat_update")
           => LET c == args[p].chat_id IN
              /\ Succeeded(out')
              /\ store[c] # NoItem
              /\ store'[c] # NoItem
              /\ store'[c].user_id = store[c].user_id
              /\ store'[c].created_at = store[c].created_at
              /\ \A d \in ChatIds \ {c} : store'[d] = store[d]
              /\ puts' = puts]_vars

\* An append has returned its reply, another chat sits in the table, and
\* the chat appended to still has the created_at it was put with.
C19_Witness ==
    /\ Succeeded(out)
    /\ out.args.route = "chat"
    /\ out.calls.write = 1
    /\ \E d \in ChatIds \ {out.args.chat_id} : store[d] # NoItem
    /\ store[out.args.chat_id].updated_at > store[out.args.chat_id].created_at

(***************************************************************************)
(* C20.  In every reachable table, whatever the completion API does (an    *)
(* error, a reply, a successful but empty reply), every stored message of  *)
(* role user is immediately followed by a message of role assistant: no    *)
(* chat is stored with an unanswered user message, be it the initial user  *)
(* message of initialize_chat or the message of                            *)
(* add_message_and_get_response.                                           *)
(* initialize_chat appends the reply only `if assistant_response` and      *)
(* puts the chat all the same.                                             *)
(***************************************************************************)
C20_EveryUserTurnAnswered ==
    \A c \in ChatIds :
        store[c] # NoItem
        => LET msgs == store[c].messages IN
           \A i \in 1..Len(msgs) :
               msgs[i].role = "user"
               => i < Len(msgs) /\ msgs[i + 1].role = "assistant"

====
